---- MODULE Spec2Model ----
(***************************************************************************)
(* External merge sort of 64-bit records (ExternalMergeSorter) driven by a *)
(* fixed-size ThreadPool.  The model follows src/src/external_merge_sort.cpp*)
(* and src/src/thread_pool.cpp, src/include/thread_pool.h.                 *)
(*                                                                         *)
(* A path is a sequence of string pieces, so that "filepath + suffix" is    *)
(* sequence concatenation and std::to_string is a digit expansion.          *)
(* A file is a record [recs, tail]: its whole 8-byte records and the number *)
(* of trailing bytes that do not make up a record.                          *)
(***************************************************************************)
EXTENDS Integers, Sequences, FiniteSets, TLC

\* ------------------------------------------------------------------ bounds
\* record values range over 0..MaxVal
MaxVal == 1
\* an input file of the exhaustive family holds at most MaxRecs records
MaxRecs == 2
\* the exhaustive family has at most MaxFiles input files
MaxFiles == 2
\* worker counts 1..MaxThreads (std::thread::hardware_concurrency())
MaxThreads == 2
\* the many-files family has merge_factor+1 .. merge_factor+MaxExtra inputs
MaxExtra == 2

\* ------------------------------------------------------- program constants
\* sizeof(int64_t)
RecordSize == 8
\* per-round fan-in and the threshold of the single-merge path
merge_factor == 128

\* ------------------------------------------------------------ pure helpers
Min(S) == CHOOSE x \in S : \A y \in S : x <= y

MaxOf(S) == CHOOSE x \in S : \A y \in S : x >= y

\* the length of the longest stream
MaxStream(streams) == MaxOf({0} \cup {Len(streams[i]) : i \in DOMAIN streams})

DigitChars == <<"0", "1", "2", "3", "4", "5", "6", "7", "8", "9">>

RECURSIVE to_string(_)
to_string(n) ==
    IF n < 10 THEN <<DigitChars[n + 1]>>
    ELSE to_string(n \div 10) \o <<DigitChars[(n % 10) + 1]>>

\* the path of the k-th regular file found under input_dir_ (k = 0, 1, ...)
InputPath(k) == <<"in/data_">> \o to_string(k) \o <<".dat">>

output_file_ == <<"sorted_output.dat">>

\* filepath + ".sorted"
TempName(filepath) == filepath \o <<".sorted">>

\* temp_filename + ".chunk" + std::to_string(chunk_index)
ChunkName(temp_filename, chunk_index) ==
    temp_filename \o <<".chunk">> \o to_string(chunk_index)

\* IntermediateName for a path derived from the group index alone
IntermediateName_NoRound(rnd, i) ==
    output_file_ \o <<".intermediate", "_g">> \o to_string(i)

\* output_file_ + ".intermediate" + "_r" + to_string(round) + "_g" + to_string(i)
IntermediateName(rnd, i) ==
    output_file_ \o <<".intermediate", "_r">> \o to_string(rnd)
                 \o <<"_g">> \o to_string(i)

RECURSIVE Insert(_, _)
Insert(x, s) ==
    IF s = <<>> THEN <<x>>
    ELSE IF x <= Head(s) THEN <<x>> \o s
    ELSE <<Head(s)>> \o Insert(x, Tail(s))

\* std::sort(buffer.begin(), buffer.end())
RECURSIVE std_sort(_)
std_sort(s) == IF s = <<>> THEN <<>> ELSE Insert(Head(s), std_sort(Tail(s)))

\* HeapPop with the comparison of Element reversed: the largest head is popped
HeapPop_Largest(st) ==
    LET live == {i \in DOMAIN st.streams : st.streams[i] # <<>>}
        m == MaxOf({st.streams[i][1] : i \in live})
        i == Min({k \in live : st.streams[k][1] = m})
    IN  [out |-> Append(st.out, m),
         streams |-> [st.streams EXCEPT ![i] = Tail(@)]]

\* one iteration of the merge loop of mergeFiles (lines 307-319): pop the
\* least stream head, write it, and refill from the same stream
HeapPop(st) ==
    LET live == {i \in DOMAIN st.streams : st.streams[i] # <<>>}
        m == Min({st.streams[i][1] : i \in live})
        i == Min({k \in live : st.streams[k][1] = m})
    IN  [out |-> Append(st.out, m),
         streams |-> [st.streams EXCEPT ![i] = Tail(@)]]

\* min_heap.empty(): no stream has a record left
HeapEmpty(st) == \A i \in DOMAIN st.streams : st.streams[i] = <<>>

\* up to n iterations of the merge loop "while (!min_heap.empty())"
RECURSIVE HeapPops(_, _)
HeapPops(st, n) ==
    IF n = 0 \/ HeapEmpty(st) THEN st
    ELSE IF n = 1 THEN HeapPop(st)
    ELSE LET half == HeapPops(st, n \div 2)
         IN  IF HeapEmpty(half) THEN half
             ELSE HeapPops(half, n - (n \div 2))

\* the merge loop of mergeFiles run until the heap is empty: every record of
\* every stream is popped once
KWayMerge(streams) ==
    HeapPops([out |-> <<>>, streams |-> streams],
             Cardinality({<<i, j>> \in (DOMAIN streams) \X (1..MaxStream(streams)) :
                             j <= Len(streams[i])})).out

IsSorted(s) == \A k \in 1..(Len(s) - 1) : s[k] <= s[k + 1]

\* number of occurrences of v in s
Count(v, s) == Cardinality({k \in 1..Len(s) : s[k] = v})

\* ------------------------------------------------------------------- state
VARIABLES
    files,          \* getAllFiles(input_dir_): the input paths, in walk order
    inputs,         \* the content of every input file when sort() starts
    writers,        \* path -> ids of the tasks that have created or written it
    reads,          \* path -> number of merges and copies that have read it
    fs,             \* the filesystem: existing path -> file
    unreadable,     \* paths that cannot be opened for reading
    unwritable,     \* paths that cannot be created or opened for writing
    memory_limit_,  \* ExternalMergeSorter::memory_limit_
    num_threads_,   \* ExternalMergeSorter::num_threads_
    tasks_,         \* ThreadPool::tasks_
    stop_,          \* ThreadPool::stop_
    destructor,     \* position of the thread running ThreadPool::~ThreadPool
    late,           \* outcome of a submit called while the pool is destroyed
    workers_,       \* ThreadPool::workers_: each thread's position and locals
    futures,        \* shared state of every std::future handed out by submit
    pc,             \* position of the thread that called sort()
    error,          \* the exception sort() ended with ("none" when none)
    chunks,         \* splitAndPresort: chunks
    batch,          \* splitAndPresort: i, j, batch_futures
    mrg             \* mergeChunks: current_files, round and the round's locals

vars == <<files, inputs, writers, reads, destructor, late, fs, unreadable, unwritable, memory_limit_, num_threads_, tasks_, stop_,
          workers_, futures, pc, error, chunks, batch, mrg>>

\* ------------------------------------------------------------- filesystem
EmptyFile == [recs |-> <<>>, tail |-> 0]

\* std::ifstream(p).is_open(), and the source side of copy_file / rename
CanRead(f, p) == p \in DOMAIN f /\ p \notin unreadable

\* std::ofstream(p).is_open(), and the target side of copy_file / rename
CanCreate(p) == p # <<>> /\ p \notin unwritable

WriteFile(f, p, c) == [q \in (DOMAIN f) \cup {p} |-> IF q = p THEN c ELSE f[q]]

\* fs::remove: removing a path that does not exist is not an error
RemoveFiles(f, ps) == [q \in (DOMAIN f) \ ps |-> f[q]]

\* fs::rename(src, dst) of an existing src
RenameFile(f, src, dst) == WriteFile(RemoveFiles(f, {src}), dst, f[src])

\* the writers wr after the task with id has created or written path p
AddWriter(wr, p, id) ==
    [q \in (DOMAIN wr) \cup {p} |->
        (IF q \in DOMAIN wr THEN wr[q] ELSE {}) \cup (IF q = p THEN {id} ELSE {})]

\* the read counts r after one more merge or copy has opened the paths ps
AddReads(r, ps) ==
    [p \in (DOMAIN r) \cup {ps[k] : k \in 1..Len(ps)} |->
        (IF p \in DOMAIN r THEN r[p] ELSE 0)
            + Cardinality({k \in 1..Len(ps) : ps[k] = p})]

\* ReadRecs with the end-of-file test made before the last record is used
ReadRecs_DropLast(f, p) ==
    IF p \in DOMAIN f THEN SubSeq(f[p].recs, 1, Len(f[p].recs) - 1) ELSE <<>>

\* the records a sequential read of p yields: read() fails at end of file
\* and on a trailing partial record alike
ReadRecs(f, p) == IF p \in DOMAIN f THEN f[p].recs ELSE <<>>

\* MergeOpen with the output stream opened before the input streams
MergeOpen_OutputFirst(f, fls, out) ==
    IF Len(fls) = 0 THEN [st |-> "return", fs |-> f]
    ELSE IF Len(fls) = 1 THEN
        IF CanRead(f, fls[1]) /\ CanCreate(out)
        THEN [st |-> "return", fs |-> WriteFile(f, out, f[fls[1]])]
        ELSE [st |-> "throw", fs |-> f]
    ELSE IF ~CanCreate(out) THEN [st |-> "throw", fs |-> f]
    ELSE IF \E i \in 1..Len(fls) : ~CanRead(f, fls[i])
        THEN [st |-> "throw", fs |-> WriteFile(f, out, EmptyFile)]
    ELSE [st |-> "open", fs |-> WriteFile(f, out, EmptyFile)]

\* mergeFiles up to the point where every stream is open (lines 252-284)
MergeOpen(f, fls, out) ==
    IF Len(fls) = 0 THEN [st |-> "return", fs |-> f]
    ELSE IF Len(fls) = 1 THEN
        IF CanRead(f, fls[1]) /\ CanCreate(out)
        THEN [st |-> "return", fs |-> WriteFile(f, out, f[fls[1]])]
        ELSE [st |-> "throw", fs |-> f]
    ELSE IF \E i \in 1..Len(fls) : ~CanRead(f, fls[i])
        THEN [st |-> "throw", fs |-> f]
    ELSE IF ~CanCreate(out) THEN [st |-> "throw", fs |-> f]
    ELSE [st |-> "open", fs |-> WriteFile(f, out, EmptyFile)]

\* mergeFiles from the heap initialisation to the close (lines 286-326)
MergeWrite(f, fls, out) ==
    WriteFile(f, out,
        [recs |-> KWayMerge([i \in 1..Len(fls) |-> ReadRecs(f, fls[i])]),
         tail |-> 0])

\* ExternalMergeSorter::mergeFiles called and run to its end
mergeFiles(f, fls, out) ==
    LET o == MergeOpen(f, fls, out)
    IN  IF o.st = "open"
        THEN [st |-> "return", fs |-> MergeWrite(o.fs, fls, out)]
        ELSE o

\* size_t max_elements = memory_limit_ / (num_threads_ * sizeof(int64_t))
max_elements == memory_limit_ \div (num_threads_ * RecordSize)

\* ------------------------------------------------------------ initial state
Values == 0..MaxVal

SeqsUpTo(S, n) == UNION {[1..k -> S] : k \in 0..n}

\* memory budgets in bytes; with one or two workers they give a per-worker
\* capacity of 0, 1, 2 or 4 records
MemLimits == {4, 16, 32}

\* trailing bytes of an input whose length is not a multiple of RecordSize
PartialBytes == 3

\* the content the test fixture writes for "ordered" data: descending values
PatternFile(k) ==
    [recs |-> <<(k + 1) % (MaxVal + 1), k % (MaxVal + 1)>>, tail |-> 0]

ShortFile(k) == [recs |-> <<(k + 1) % (MaxVal + 1)>>, tail |-> 0]

\* every directory of at most MaxFiles well-formed files, every budget
ExhaustiveConfigs ==
    UNION {
      {[n |-> n, content |-> c, W |-> w, M |-> m, nr |-> {}, nw |-> {}] :
          c \in [1..n -> {[recs |-> s, tail |-> 0] :
                             s \in SeqsUpTo(Values, MaxRecs)}],
          w \in 1..MaxThreads, m \in MemLimits} :
      n \in 0..MaxFiles}

\* the paths a fault makes unreadable (after they were written), or unwritable
UnreadableChoices ==
    {InputPath(0), TempName(InputPath(0)),
     ChunkName(TempName(InputPath(0)), 0)}

UnwritableChoices ==
    {TempName(InputPath(0)), ChunkName(TempName(InputPath(0)), 0),
     ChunkName(TempName(InputPath(0)), 1), output_file_}

\* directories in which one path cannot be opened, or whose last file ends
\* in a partial record
FaultConfigs ==
    UNION {
      {[n |-> n, content |-> [k \in 1..n |-> PatternFile(k - 1)],
        W |-> w, M |-> m, nr |-> {p}, nw |-> {}] :
          w \in 1..MaxThreads, m \in MemLimits, p \in UnreadableChoices}
      \cup
      {[n |-> n, content |-> [k \in 1..n |-> PatternFile(k - 1)],
        W |-> w, M |-> m, nr |-> {}, nw |-> {p}] :
          w \in 1..MaxThreads, m \in MemLimits, p \in UnwritableChoices}
      \cup
      {[n |-> n,
        content |-> [k \in 1..n |->
                        IF k = n
                        THEN [PatternFile(k - 1) EXCEPT !.tail = PartialBytes]
                        ELSE PatternFile(k - 1)],
        W |-> w, M |-> m, nr |-> {}, nw |-> {}] :
          w \in 1..MaxThreads, m \in MemLimits} :
      n \in 1..2}

\* directories with more files than the fan-in, one worker
ManyFilesConfigs ==
    {[n |-> n, content |-> [k \in 1..n |-> ShortFile(k - 1)],
      W |-> 1, M |-> 32, nr |-> {}, nw |-> {}] :
        n \in (merge_factor + 1)..(merge_factor + MaxExtra)}
    \cup
    {[n |-> merge_factor + 1,
      content |-> [k \in 1..(merge_factor + 1) |-> EmptyFile],
      W |-> 1, M |-> 32, nr |-> {}, nw |-> {}]}

\* one file of merge_factor records sorted with a capacity of one record
LongFileConfigs ==
    {[n |-> 1,
      content |-> [k \in 1..1 |->
                      [recs |-> [j \in 1..merge_factor |-> j % (MaxVal + 1)],
                       tail |-> 0]],
      W |-> 1, M |-> RecordSize, nr |-> {}, nw |-> {}]}

\* directories with enough files for batches of two tasks (line 69), with
\* and without an unreadable first file, with a capacity of one record
\* (every file is written as two chunks) or more
BatchConfigs ==
    {[n |-> 4 * MaxThreads,
      content |-> [k \in 1..(4 * MaxThreads) |-> ShortFile(k - 1)],
      W |-> MaxThreads, M |-> m, nr |-> r, nw |-> {}] :
        r \in {{}, {InputPath(0)}},
        m \in {MaxThreads * RecordSize, 2 * MaxThreads * RecordSize}}

\* a directory with more files than the fan-in in which the first merge task
\* of round 0 cannot read one of its runs
RoundFaultConfigs ==
    {[n |-> merge_factor + 1,
      content |-> [k \in 1..(merge_factor + 1) |-> ShortFile(k - 1)],
      W |-> 1, M |-> 32, nr |-> {TempName(InputPath(0))}, nw |-> {}]}

Configs ==
    ExhaustiveConfigs \cup FaultConfigs \cup ManyFilesConfigs
        \cup LongFileConfigs \cup BatchConfigs \cup RoundFaultConfigs

NoTask == [id |-> 0, kind |-> "none", files |-> <<>>, out |-> <<>>]

NoInfo == [temp_file |-> <<>>, data_count |-> 0]

\* a worker thread at the top of its loop, about to lock queue_mutex_ and
\* evaluate the predicate of condition_.wait, with no task
IdleWorker ==
    [pc |-> "wait", task |-> NoTask, pos |-> 0, chunk_index |-> 0,
     finished |-> FALSE, data_count |-> 0, buffer |-> <<>>]

NoBatch == [i |-> 0, j |-> 0, futs |-> <<>>, g |-> 0]

NoMerge ==
    [current_files |-> <<>>, round |-> 0, files_groups |-> <<>>,
     output_files |-> <<>>, next_round_files |-> <<>>,
     merge_futures |-> <<>>, k |-> 0]

\* the state after ExternalMergeSorter's constructor, when sort() is called
\* on a directory whose walk yields the paths names with the contents of cfg
Start(cfg, names) ==
    /\ files = names
    /\ inputs = cfg.content
    /\ writers = <<>>
    /\ reads = <<>>
    /\ fs = [p \in {names[k] : k \in 1..cfg.n} |->
                cfg.content[CHOOSE k \in 1..cfg.n : names[k] = p]]
    /\ unreadable = cfg.nr
    /\ unwritable = cfg.nw
    /\ memory_limit_ = cfg.M
    /\ num_threads_ = cfg.W
    /\ tasks_ = <<>>
    /\ stop_ = FALSE
    /\ destructor = "none"
    /\ late = "none"
    /\ workers_ = [w \in 1..cfg.W |-> IdleWorker]
    /\ futures = <<>>
    /\ pc = "split"
    /\ error = "none"
    /\ chunks = <<>>
    /\ batch = NoBatch
    /\ mrg = NoMerge

\* the directories of the tests: data_0.dat, data_1.dat, ...
Init ==
    \E cfg \in Configs : Start(cfg, [k \in 1..cfg.n |-> InputPath(k - 1)])

\* directories that hold, next to data_0.dat, a file whose name is the one
\* of a file sort() derives from data_0.dat (left by an earlier run, say)
DerivedNames ==
    {TempName(InputPath(0)), ChunkName(TempName(InputPath(0)), 0)}

NameConfigs ==
    {[n |-> 2, content |-> <<[recs |-> r, tail |-> 0], [recs |-> s, tail |-> 0]>>,
      W |-> 1, M |-> m, nr |-> {}, nw |-> {}, names |-> <<InputPath(0), d>>] :
        r \in SeqsUpTo(Values, MaxRecs), s \in SeqsUpTo(Values, 1),
        m \in MemLimits, d \in DerivedNames}

\* sort() called on any directory of Init or of NameConfigs
InitNames ==
    \/ Init
    \/ \E cfg \in NameConfigs : Start(cfg, cfg.names)

\* ------------------------------------------------------------- thread pool
\* a fill pass that can neither read a record nor see the end of the file
\* repeats for ever; the model follows at most MaxChunks passes of one file
MaxChunks == MaxRecs + 2

Max(a, b) == IF a >= b THEN a ELSE b

Workers == 1..num_threads_

\* ThreadPool::submit: the future it returns has id Len(futures) + 1
NextFuture == Len(futures) + 1

\* queue_mutex_ is held from the predicate of condition_.wait that returned
\* false until the wait blocks; every other critical section is one step
MutexFree == \A w \in Workers : workers_[w].pc # "prewait"

\* the workers blocked inside condition_.wait
Blocked == {w \in Workers : workers_[w].pc = "blocked"}

\* submit, lines 61-72: emplace under the lock, then notify_one, which wakes
\* one of the blocked workers if there is one
Enqueue(kind, fls, out) ==
    /\ tasks_' = Append(tasks_, [id |-> NextFuture, kind |-> kind,
                                 files |-> fls, out |-> out])
    /\ futures' = Append(futures, [kind |-> kind, state |-> "pending",
                                   value |-> NoInfo])
    /\ IF Blocked = {}
       THEN UNCHANGED workers_
       ELSE \E w \in Blocked : workers_' = [workers_ EXCEPT ![w].pc = "wait"]

\* PoolStopped for a submit that does not look at the stop flag
PoolStopped_Never == FALSE

\* submit, line 64: the stop flag read under the lock
PoolStopped == stop_

\* the packaged_task stores the task's result or exception in its future
\* and the worker loops back to condition_.wait
Resolve(w, st, val) ==
    /\ futures' = [futures EXCEPT ![workers_[w].task.id] =
                      [@ EXCEPT !.state = st, !.value = val]]
    /\ workers_' = [workers_ EXCEPT ![w] = IdleWorker]

\* WorkerDequeue for a worker that copies the front task and leaves it queued
WorkerDequeue_NoPop(w) ==
    /\ workers_[w].pc = "wait"
    /\ MutexFree
    /\ tasks_ # <<>>
    /\ workers_' = [workers_ EXCEPT ![w] =
            [IdleWorker EXCEPT !.task = Head(tasks_),
                !.pc = IF Head(tasks_).kind = "process" THEN "begin"
                       ELSE "mopen"]]
    /\ UNCHANGED <<files, inputs, writers, reads, destructor, late, fs, unreadable, unwritable, memory_limit_, num_threads_, stop_,
                   tasks_, futures, pc, error, chunks, batch, mrg>>

\* worker loop, lines 13-27: the predicate holds with a non-empty queue and
\* the worker pops its front
WorkerDequeue(w) ==
    /\ workers_[w].pc = "wait"
    /\ MutexFree
    /\ tasks_ # <<>>
    /\ workers_' = [workers_ EXCEPT ![w] =
            [IdleWorker EXCEPT !.task = Head(tasks_),
                !.pc = IF Head(tasks_).kind = "process" THEN "begin"
                       ELSE "mopen"]]
    /\ tasks_' = Tail(tasks_)
    /\ UNCHANGED <<files, inputs, writers, reads, destructor, late, fs, unreadable, unwritable, memory_limit_, num_threads_, stop_,
                   futures, pc, error, chunks, batch, mrg>>

\* worker loop, lines 16-23: the predicate holds with stop_ set and nothing
\* queued, and the thread returns
WorkerExit(w) ==
    /\ workers_[w].pc = "wait"
    /\ MutexFree
    /\ stop_
    /\ tasks_ = <<>>
    /\ workers_' = [workers_ EXCEPT ![w].pc = "exited"]
    /\ UNCHANGED <<files, inputs, writers, reads, destructor, late, fs, unreadable, unwritable, memory_limit_, num_threads_, tasks_,
                   stop_, futures, pc, error, chunks, batch, mrg>>

\* worker loop, lines 13-17: the predicate of condition_.wait is evaluated
\* under the lock and returns false
WorkerWait(w) ==
    /\ workers_[w].pc = "wait"
    /\ MutexFree
    /\ ~stop_
    /\ tasks_ = <<>>
    /\ workers_' = [workers_ EXCEPT ![w].pc = "prewait"]
    /\ UNCHANGED <<files, inputs, writers, reads, destructor, late, fs, unreadable, unwritable, memory_limit_, num_threads_, tasks_,
                   stop_, futures, pc, error, chunks, batch, mrg>>

\* worker loop, line 16: after a false predicate condition_.wait releases the
\* lock and blocks until it is notified
WorkerBlock(w) ==
    /\ workers_[w].pc = "prewait"
    /\ workers_' = [workers_ EXCEPT ![w].pc = "blocked"]
    /\ UNCHANGED <<files, inputs, writers, reads, destructor, late, fs, unreadable, unwritable, memory_limit_, num_threads_, tasks_,
                   stop_, futures, pc, error, chunks, batch, mrg>>

\* worker loop, line 16: a condition variable may wake without a
\* notification; the worker then evaluates the predicate again
WorkerSpurious(w) ==
    /\ workers_[w].pc = "blocked"
    /\ workers_' = [workers_ EXCEPT ![w].pc = "wait"]
    /\ UNCHANGED <<files, inputs, writers, reads, destructor, late, fs, unreadable, unwritable, memory_limit_, num_threads_, tasks_,
                   stop_, futures, pc, error, chunks, batch, mrg>>

\* ThreadPool::~ThreadPool line 36, run when the sorter goes out of scope
\* after sort() has returned or thrown: stop_ is stored without the lock
PoolDestroy ==
    /\ pc \in {"done", "failed"}
    /\ destructor = "none"
    /\ stop_' = TRUE
    /\ destructor' = "notify"
    /\ UNCHANGED <<files, inputs, writers, reads, late, fs, unreadable, unwritable, memory_limit_, num_threads_, tasks_,
                   workers_, futures, pc, error, chunks, batch, mrg>>

\* ThreadPool::~ThreadPool line 37: notify_all wakes the workers that are
\* blocked at that moment
PoolNotifyAll ==
    /\ destructor = "notify"
    /\ workers_' = [w \in Workers |->
                       IF w \in Blocked
                       THEN [workers_[w] EXCEPT !.pc = "wait"]
                       ELSE workers_[w]]
    /\ destructor' = "join"
    /\ UNCHANGED <<files, inputs, writers, reads, late, fs, unreadable, unwritable, memory_limit_, num_threads_, tasks_,
                   stop_, futures, pc, error, chunks, batch, mrg>>

\* ThreadPool::~ThreadPool lines 40-42: join returns for every worker once
\* all of them have returned
PoolJoin ==
    /\ destructor = "join"
    /\ \A w \in Workers : workers_[w].pc = "exited"
    /\ destructor' = "joined"
    /\ UNCHANGED <<files, inputs, writers, reads, late, fs, unreadable, unwritable, memory_limit_, num_threads_, tasks_,
                   stop_, workers_, futures, pc, error, chunks, batch, mrg>>

\* submit, lines 43-74, called by another client of the pool while the
\* destructor runs: the stop flag is set and submit throws
LateSubmit ==
    /\ destructor \in {"notify", "join"}
    /\ late = "none"
    /\ MutexFree
    /\ IF PoolStopped
       THEN /\ late' = "thrown"
            /\ UNCHANGED <<tasks_, futures, workers_>>
       ELSE /\ Enqueue("process", <<InputPath(0)>>, <<>>)
            /\ late' = "accepted"
    /\ UNCHANGED <<files, inputs, writers, reads, destructor, fs, unreadable, unwritable, memory_limit_, num_threads_,
                   stop_, pc, error, chunks, batch, mrg>>

\* ------------------------------------------------------------ run producer
\* processFile, lines 91-113: open the input or throw
ProcessBegin(w) ==
    /\ workers_[w].pc = "begin"
    /\ IF CanRead(fs, workers_[w].task.files[1])
       THEN /\ workers_' = [workers_ EXCEPT ![w].pc = "pass"]
            /\ UNCHANGED futures
       ELSE Resolve(w, "exception", NoInfo)
    /\ UNCHANGED <<files, inputs, writers, reads, destructor, late, fs, unreadable, unwritable, memory_limit_, num_threads_, tasks_,
                   stop_, pc, error, chunks, batch, mrg>>

\* FillCount without the bound of the fill loop: the rest of the file is read
FillCount_Unbounded(recs, pos) == Len(recs) - pos

\* the records one fill pass reads (lines 119-128), starting after pos
FillCount(recs, pos) == Min({max_elements, Len(recs) - pos})

\* processFile, lines 115-146: one iteration of the while loop
ProcessPass(w) ==
    LET me == workers_[w]
        recs == ReadRecs(fs, me.task.files[1])
        cnt == FillCount(recs, me.pos)
        fin == cnt < max_elements
        buf == std_sort(SubSeq(recs, me.pos + 1, me.pos + cnt))
        chunk_filename == ChunkName(TempName(me.task.files[1]), me.chunk_index)
    IN  /\ me.pc = "pass"
        /\ me.chunk_index < Max(MaxChunks, Len(recs) + 2)
        /\ IF CanCreate(chunk_filename)
           THEN /\ fs' = WriteFile(fs, chunk_filename,
                                   [recs |-> buf, tail |-> 0])
                /\ workers_' = [workers_ EXCEPT ![w] =
                       [me EXCEPT !.pos = me.pos + cnt,
                                  !.data_count = me.data_count + cnt,
                                  !.chunk_index = me.chunk_index + 1,
                                  !.finished = fin,
                                  !.buffer = buf,
                                  !.pc = IF fin THEN "finish" ELSE "pass"]]
                /\ UNCHANGED futures
           ELSE /\ Resolve(w, "exception", NoInfo)
                /\ UNCHANGED fs
        /\ writers' = IF CanCreate(chunk_filename)
                        THEN AddWriter(writers, chunk_filename, me.task.id)
                        ELSE writers
        /\ UNCHANGED <<files, inputs, reads, destructor, late, unreadable, unwritable, memory_limit_, num_threads_, tasks_,
                       stop_, pc, error, chunks, batch, mrg>>

\* chunk_files of processFile: the chunk paths written so far
ChunkFiles(me) ==
    [k \in 1..me.chunk_index |-> ChunkName(TempName(me.task.files[1]), k - 1)]

\* processFile, lines 148-157: one chunk is renamed and the ChunkInfo
\* returned; for several chunks mergeFiles opens its streams
ProcessFinish(w) ==
    LET me == workers_[w]
        temp_filename == TempName(me.task.files[1])
        chunk_files == ChunkFiles(me)
        info == [temp_file |-> temp_filename, data_count |-> me.data_count]
        o == MergeOpen(fs, chunk_files, temp_filename)
    IN  /\ me.pc = "finish"
        /\ IF Len(chunk_files) = 1
           THEN IF chunk_files[1] \in DOMAIN fs
                   /\ CanCreate(temp_filename)
                THEN /\ fs' = RenameFile(fs, chunk_files[1], temp_filename)
                     /\ Resolve(w, "value", info)
                ELSE /\ Resolve(w, "exception", NoInfo)
                     /\ UNCHANGED fs
           ELSE /\ fs' = o.fs
                /\ IF o.st = "open"
                   THEN /\ workers_' = [workers_ EXCEPT ![w].pc = "cmerge"]
                        /\ UNCHANGED futures
                   ELSE Resolve(w, "exception", NoInfo)
        /\ reads' = IF Len(chunk_files) > 1 /\ o.st = "open"
                      THEN AddReads(reads, chunk_files)
                      ELSE reads
        /\ writers' = IF \/ /\ Len(chunk_files) = 1
                             /\ chunk_files[1] \in DOMAIN fs
                             /\ CanCreate(temp_filename)
                          \/ /\ Len(chunk_files) > 1
                             /\ o.st = "open"
                        THEN AddWriter(writers, temp_filename, me.task.id)
                        ELSE writers
        /\ UNCHANGED <<files, inputs, destructor, late, unreadable, unwritable, memory_limit_, num_threads_, tasks_,
                       stop_, pc, error, chunks, batch, mrg>>

\* processFile, lines 157-164: the merge of the chunks is written, the
\* chunks are removed and the ChunkInfo is returned
ProcessMerge(w) ==
    LET me == workers_[w]
        temp_filename == TempName(me.task.files[1])
        chunk_files == ChunkFiles(me)
        info == [temp_file |-> temp_filename, data_count |-> me.data_count]
    IN  /\ me.pc = "cmerge"
        /\ fs' = RemoveFiles(MergeWrite(fs, chunk_files, temp_filename),
                             {chunk_files[k] : k \in 1..Len(chunk_files)})
        /\ Resolve(w, "value", info)
        /\ UNCHANGED <<files, inputs, writers, reads, destructor, late, unreadable, unwritable, memory_limit_, num_threads_, tasks_,
                       stop_, pc, error, chunks, batch, mrg>>

\* ------------------------------------------------------------- merge task
\* the lambda of mergeChunks line 222: mergeFiles up to the opened streams
MergeTaskOpen(w) ==
    LET me == workers_[w]
        o == MergeOpen(fs, me.task.files, me.task.out)
    IN  /\ me.pc = "mopen"
        /\ fs' = o.fs
        /\ IF o.st = "open"
           THEN /\ workers_' = [workers_ EXCEPT ![w].pc = "mwrite"]
                /\ UNCHANGED futures
           ELSE Resolve(w, IF o.st = "throw" THEN "exception" ELSE "value",
                        NoInfo)
        /\ reads' = IF o.st = "open"
                      THEN AddReads(reads, me.task.files)
                      ELSE reads
        /\ writers' = IF o.fs # fs
                        THEN AddWriter(writers, me.task.out, me.task.id)
                        ELSE writers
        /\ UNCHANGED <<files, inputs, destructor, late, unreadable, unwritable, memory_limit_, num_threads_, tasks_,
                       stop_, pc, error, chunks, batch, mrg>>

\* the lambda of mergeChunks line 222: the heap loop and the close
MergeTaskWrite(w) ==
    LET me == workers_[w]
    IN  /\ me.pc = "mwrite"
        /\ fs' = MergeWrite(fs, me.task.files, me.task.out)
        /\ Resolve(w, "value", NoInfo)
        /\ UNCHANGED <<files, inputs, writers, reads, destructor, late, unreadable, unwritable, memory_limit_, num_threads_, tasks_,
                       stop_, pc, error, chunks, batch, mrg>>

\* ------------------------------------------------------- sort orchestrator
\* splitAndPresort line 69
batch_size == Max(1, Len(files) \div (num_threads_ * 2))

\* splitAndPresort lines 54-57 (num_threads_ is never 0 after the
\* constructor, so lines 59-66 are not reachable)
Split ==
    /\ pc = "split"
    /\ IF Len(files) = 0
       THEN /\ pc' = "merge"
            /\ UNCHANGED batch
       ELSE /\ pc' = "submit"
            /\ batch' = NoBatch
    /\ UNCHANGED <<files, inputs, writers, reads, destructor, late, fs, unreadable, unwritable, memory_limit_, num_threads_, tasks_,
                   stop_, workers_, futures, error, chunks, mrg>>

\* splitAndPresort lines 77-80: one submit of the batch
SubmitProcess ==
    LET end == Min({batch.i + batch_size, Len(files)})
    IN  /\ pc = "submit"
        /\ MutexFree
        /\ IF PoolStopped
           THEN /\ pc' = "failed"
                /\ error' = "submit on stopped ThreadPool"
                /\ UNCHANGED <<tasks_, futures, workers_, batch>>
           ELSE /\ Enqueue("process", <<files[batch.j + 1]>>, <<>>)
                /\ batch' = [batch EXCEPT !.j = batch.j + 1,
                                          !.futs = Append(batch.futs, NextFuture)]
                /\ pc' = IF batch.j + 1 = end THEN "get" ELSE "submit"
                /\ UNCHANGED error
        /\ UNCHANGED <<files, inputs, writers, reads, destructor, late, fs, unreadable, unwritable, memory_limit_, num_threads_,
                       stop_, chunks, mrg>>

\* FutureThrows for a handle that is only waited on, as future.wait() does
FutureThrows_Never(fut) == FALSE

\* std::future::get rethrows the exception the task stored
FutureThrows(fut) == fut.state = "exception"

\* splitAndPresort lines 83-85: future.get() of the next future of the batch
GetFuture ==
    LET fut == futures[batch.futs[batch.g + 1]]
        next_i == batch.i + batch_size
    IN  /\ pc = "get"
        /\ fut.state # "pending"
        /\ IF FutureThrows(fut)
           THEN /\ pc' = "failed"
                /\ error' = "task"
                /\ UNCHANGED <<chunks, batch>>
           ELSE /\ chunks' = Append(chunks, fut.value)
                /\ UNCHANGED error
                /\ IF batch.g + 1 < Len(batch.futs)
                   THEN /\ batch' = [batch EXCEPT !.g = batch.g + 1]
                        /\ pc' = "get"
                   ELSE IF next_i < Len(files)
                   THEN /\ batch' = [i |-> next_i, j |-> next_i,
                                     futs |-> <<>>, g |-> 0]
                        /\ pc' = "submit"
                   ELSE /\ batch' = NoBatch
                        /\ pc' = "merge"
        /\ UNCHANGED <<files, inputs, writers, reads, destructor, late, fs, unreadable, unwritable, memory_limit_, num_threads_,
                       tasks_, stop_, workers_, futures, mrg>>

\* mergeChunks lines 168-170
MergeNone ==
    /\ pc = "merge"
    /\ Len(chunks) = 0
    /\ pc' = "cleanup"
    /\ UNCHANGED <<files, inputs, writers, reads, destructor, late, fs, unreadable, unwritable, memory_limit_, num_threads_, tasks_,
                   stop_, workers_, futures, error, chunks, batch, mrg>>

\* mergeChunks lines 173-176: fs::copy_file with overwrite_existing
MergeCopy ==
    /\ pc = "merge"
    /\ Len(chunks) = 1
    /\ IF CanRead(fs, chunks[1].temp_file) /\ CanCreate(output_file_)
       THEN /\ fs' = WriteFile(fs, output_file_, fs[chunks[1].temp_file])
            /\ pc' = "cleanup"
            /\ UNCHANGED error
       ELSE /\ pc' = "failed"
            /\ error' = "copy_file"
            /\ UNCHANGED fs
    /\ reads' = IF CanRead(fs, chunks[1].temp_file) /\ CanCreate(output_file_)
                  THEN AddReads(reads, <<chunks[1].temp_file>>)
                  ELSE reads
    /\ UNCHANGED <<files, inputs, writers, destructor, late, unreadable, unwritable, memory_limit_, num_threads_, tasks_,
                   stop_, workers_, futures, chunks, batch, mrg>>

\* mergeChunks lines 179-184: one merge on the calling thread, up to the
\* opened streams
MergeDirect ==
    LET filenames == [k \in 1..Len(chunks) |-> chunks[k].temp_file]
        o == MergeOpen(fs, filenames, output_file_)
    IN  /\ pc = "merge"
        /\ Len(chunks) > 1
        /\ Len(chunks) <= merge_factor
        /\ fs' = o.fs
        /\ IF o.st = "throw"
           THEN /\ pc' = "failed"
                /\ error' = "mergeFiles"
           ELSE /\ pc' = "dwrite"
                /\ UNCHANGED error
        /\ reads' = IF o.st = "open"
                      THEN AddReads(reads, filenames)
                      ELSE reads
        /\ UNCHANGED <<files, inputs, writers, destructor, late, unreadable, unwritable, memory_limit_, num_threads_, tasks_,
                       stop_, workers_, futures, chunks, batch, mrg>>

\* mergeChunks lines 184-186: the heap loop and the close of that merge
MergeDirectWrite ==
    LET filenames == [k \in 1..Len(chunks) |-> chunks[k].temp_file]
    IN  /\ pc = "dwrite"
        /\ fs' = MergeWrite(fs, filenames, output_file_)
        /\ pc' = "cleanup"
        /\ UNCHANGED <<files, inputs, writers, reads, destructor, late, unreadable, unwritable, memory_limit_, num_threads_, tasks_,
                       stop_, workers_, futures, error, chunks, batch, mrg>>

\* mergeChunks lines 189-195
MergeStart ==
    /\ pc = "merge"
    /\ Len(chunks) > merge_factor
    /\ mrg' = [NoMerge EXCEPT
                  !.current_files = [k \in 1..Len(chunks) |-> chunks[k].temp_file]]
    /\ pc' = "round"
    /\ UNCHANGED <<files, inputs, writers, reads, destructor, late, fs, unreadable, unwritable, memory_limit_, num_threads_, tasks_,
                   stop_, workers_, futures, error, chunks, batch>>

\* Groups with every group reaching one file into the next group
Groups_Overlapping(current_files) ==
    [g \in 1..((Len(current_files) + merge_factor - 1) \div merge_factor) |->
        [i |-> (g - 1) * merge_factor,
         fl |-> SubSeq(current_files, (g - 1) * merge_factor + 1,
                       Min({g * merge_factor + 1, Len(current_files)}))]]

\* the groups of one round: group g starts at index (g - 1) * merge_factor
Groups(current_files) ==
    [g \in 1..((Len(current_files) + merge_factor - 1) \div merge_factor) |->
        [i |-> (g - 1) * merge_factor,
         fl |-> SubSeq(current_files, (g - 1) * merge_factor + 1,
                       Min({g * merge_factor, Len(current_files)}))]]

IsSingle(grp) == Len(grp.fl) = 1

IsMulti(grp) == Len(grp.fl) # 1

\* mergeChunks lines 196-218: the loop test and the grouping of one round
RoundPlan ==
    LET groups == Groups(mrg.current_files)
        singles == SelectSeq(groups, IsSingle)
        multis == SelectSeq(groups, IsMulti)
    IN  /\ pc = "round"
        /\ IF Len(mrg.current_files) > 1
           THEN /\ mrg' = [mrg EXCEPT
                     !.next_round_files =
                         [k \in 1..Len(singles) |-> singles[k].fl[1]],
                     !.files_groups = [k \in 1..Len(multis) |-> multis[k].fl],
                     !.output_files =
                         [k \in 1..Len(multis) |->
                             IntermediateName(mrg.round, multis[k].i)],
                     !.merge_futures = <<>>,
                     !.k = 0]
                /\ pc' = "msubmit"
           ELSE /\ pc' = "rename"
                /\ UNCHANGED mrg
        /\ UNCHANGED <<files, inputs, writers, reads, destructor, late, fs, unreadable, unwritable, memory_limit_, num_threads_,
                       tasks_, stop_, workers_, futures, error, chunks, batch>>

\* what std::move leaves in output_files[i]: a moved-from std::string is in a
\* valid but unspecified state, the common libraries leave it empty
MovedFromString(str) == {<<>>, str}

\* what std::move leaves in files_groups[i]: a moved-from std::vector is empty
MovedFromVector == <<>>

\* mergeChunks lines 221-226: one submit of the round; the lambda's captures
\* are moved out of files_groups[i] and output_files[i]
SubmitMerge ==
    LET k == mrg.k + 1
    IN  /\ pc = "msubmit"
        /\ MutexFree
        /\ IF PoolStopped
           THEN /\ pc' = "failed"
                /\ error' = "submit on stopped ThreadPool"
                /\ UNCHANGED <<tasks_, futures, workers_, mrg>>
           ELSE /\ Enqueue("merge", mrg.files_groups[k], mrg.output_files[k])
                /\ \E left \in MovedFromString(mrg.output_files[k]) :
                      mrg' = [mrg EXCEPT
                          !.files_groups[k] = MovedFromVector,
                          !.output_files[k] = left,
                          !.merge_futures = Append(mrg.merge_futures, NextFuture),
                          !.k = k]
                /\ pc' = IF k = Len(mrg.files_groups) THEN "mwait" ELSE "msubmit"
                /\ UNCHANGED error
        /\ UNCHANGED <<files, inputs, writers, reads, destructor, late, fs, unreadable, unwritable, memory_limit_, num_threads_,
                       stop_, chunks, batch>>

\* the paths named by a sequence of path sequences
Flatten(ss) == UNION {{ss[g][k] : k \in 1..Len(ss[g])} : g \in 1..Len(ss)}

\* MergeFuturesReady for a round that is collected without waiting
MergeFuturesReady_Unwaited == TRUE

\* mergeChunks lines 229-231: every future.wait() of the round has returned
MergeFuturesReady ==
    \A k \in 1..Len(mrg.merge_futures) :
        futures[mrg.merge_futures[k]].state # "pending"

\* mergeChunks lines 229-243: future.wait() on every merge future (the
\* outcome of the task is not looked at), then the collection of the round
WaitCollect ==
    /\ pc = "mwait"
    /\ MergeFuturesReady
    /\ fs' = RemoveFiles(fs, Flatten(mrg.files_groups))
    /\ mrg' = [mrg EXCEPT
          !.current_files = mrg.next_round_files \o mrg.output_files,
          !.next_round_files = <<>>,
          !.files_groups = <<>>,
          !.output_files = <<>>,
          !.merge_futures = <<>>,
          !.k = 0,
          !.round = mrg.round + 1]
    /\ pc' = "round"
    /\ UNCHANGED <<files, inputs, writers, reads, destructor, late, unreadable, unwritable, memory_limit_, num_threads_, tasks_,
                   stop_, workers_, futures, error, chunks, batch>>

\* mergeChunks lines 247-249: fs::rename throws when it fails
FinalRename ==
    /\ pc = "rename"
    /\ IF mrg.current_files = <<>>
       THEN /\ pc' = "cleanup"
            /\ UNCHANGED <<fs, error>>
       ELSE IF mrg.current_files[1] \in DOMAIN fs
               /\ CanCreate(output_file_)
       THEN /\ fs' = RenameFile(fs, mrg.current_files[1], output_file_)
            /\ pc' = "cleanup"
            /\ UNCHANGED error
       ELSE /\ pc' = "failed"
            /\ error' = "rename"
            /\ UNCHANGED fs
    /\ UNCHANGED <<files, inputs, writers, reads, destructor, late, unreadable, unwritable, memory_limit_, num_threads_, tasks_,
                   stop_, workers_, futures, chunks, batch, mrg>>

\* sort lines 45-50: remove every chunk's temp_file and return
Cleanup ==
    /\ pc = "cleanup"
    /\ fs' = RemoveFiles(fs, {chunks[k].temp_file : k \in 1..Len(chunks)})
    /\ pc' = "done"
    /\ UNCHANGED <<files, inputs, writers, reads, destructor, late, unreadable, unwritable, memory_limit_, num_threads_, tasks_,
                   stop_, workers_, futures, error, chunks, batch, mrg>>

\* ------------------------------------------------------------ specification
Next ==
    \/ Split
    \/ SubmitProcess
    \/ GetFuture
    \/ MergeNone
    \/ MergeCopy
    \/ MergeDirect
    \/ MergeDirectWrite
    \/ MergeStart
    \/ RoundPlan
    \/ SubmitMerge
    \/ WaitCollect
    \/ FinalRename
    \/ Cleanup
    \/ PoolDestroy
    \/ PoolNotifyAll
    \/ PoolJoin
    \/ LateSubmit
    \/ \E w \in Workers : WorkerDequeue(w)
    \/ \E w \in Workers : WorkerExit(w)
    \/ \E w \in Workers : WorkerWait(w)
    \/ \E w \in Workers : WorkerBlock(w)
    \/ \E w \in Workers : WorkerSpurious(w)
    \/ \E w \in Workers : ProcessBegin(w)
    \/ \E w \in Workers : ProcessPass(w)
    \/ \E w \in Workers : ProcessFinish(w)
    \/ \E w \in Workers : ProcessMerge(w)
    \/ \E w \in Workers : MergeTaskOpen(w)
    \/ \E w \in Workers : MergeTaskWrite(w)

Spec == Init /\ [][Next]_vars

SpecNames == InitNames /\ [][Next]_vars

\* the steps of the thread that calls sort()
SortStep ==
    \/ Split
    \/ SubmitProcess
    \/ GetFuture
    \/ MergeNone
    \/ MergeCopy
    \/ MergeDirect
    \/ MergeDirectWrite
    \/ MergeStart
    \/ RoundPlan
    \/ SubmitMerge
    \/ WaitCollect
    \/ FinalRename
    \/ Cleanup

\* the steps of worker thread w that do not depend on a spurious wakeup
WorkerStep(w) ==
    /\ w \in Workers
    /\ \/ WorkerDequeue(w)
       \/ WorkerExit(w)
       \/ WorkerWait(w)
       \/ WorkerBlock(w)
       \/ ProcessBegin(w)
       \/ ProcessPass(w)
       \/ ProcessFinish(w)
       \/ ProcessMerge(w)
       \/ MergeTaskOpen(w)
       \/ MergeTaskWrite(w)

\* every thread that can take a step eventually takes one; a worker that
\* competes for queue_mutex_ eventually gets it
Fairness ==
    /\ WF_vars(SortStep)
    /\ WF_vars(PoolDestroy \/ PoolNotifyAll \/ PoolJoin)
    /\ \A w \in 1..MaxThreads : SF_vars(WorkerStep(w))

SpecFair == Spec /\ Fairness

\* ------------------------------------------------------------------ claims
OutputExists == output_file_ \in DOMAIN fs

OutputRecs == IF OutputExists THEN fs[output_file_].recs ELSE <<>>

\* the positions <<k, j>> of the records of all input files
InputPositions ==
    UNION {{<<k, j>> : j \in 1..Len(inputs[k].recs)} : k \in 1..Len(inputs)}

\* how often value v occurs in the input files
TotalCount(v) ==
    Cardinality({p \in InputPositions : inputs[p[1]].recs[p[2]] = v})

WellFormed == \A k \in 1..Len(inputs) : inputs[k].tail = 0

NoFaults == unreadable = {} /\ unwritable = {}

Returned == pc \in {"done", "failed"}

ProducerFailed ==
    \E id \in 1..Len(futures) :
        futures[id].kind = "process" /\ futures[id].state = "exception"

\* C1: when sort() has returned successfully, the records of the output file
\* are in non-decreasing order
C1_OutputSorted == (pc = "done" /\ OutputExists) => IsSorted(OutputRecs)

C1_Witness ==
    /\ pc = "done"
    /\ Len(OutputRecs) >= 3
    /\ OutputRecs[1] < OutputRecs[Len(OutputRecs)]
    /\ \E k \in 1..Len(inputs) : ~IsSorted(inputs[k].recs)

\* C2: when sort() has returned successfully on inputs made of whole records,
\* every value occurs in the output exactly as often as in all inputs
\* together, and the output has as many records as the inputs
C2_MultisetPreserved ==
    (pc = "done" /\ WellFormed) =>
        /\ \A v \in Values : Count(v, OutputRecs) = TotalCount(v)
        /\ Len(OutputRecs) = Cardinality(InputPositions)
        /\ OutputExists => fs[output_file_].tail = 0

C2_Witness ==
    /\ pc = "done"
    /\ WellFormed
    /\ Len(files) >= 2
    /\ Len(OutputRecs) >= 3
    /\ \E v \in Values : Count(v, OutputRecs) >= 2

\* C3: when run generation has produced two or more runs (also more than
\* merge_factor of them) and no file operation fails, sort() returns
\* successfully and the output file holds every input record
C3_ManyRunsSucceed ==
    (Returned /\ NoFaults /\ Len(files) >= 2) =>
        /\ pc = "done"
        /\ OutputExists
        /\ Len(OutputRecs) = Cardinality(InputPositions)

\* C4: the per-worker record capacity is at least 1, and every fill pass of a
\* run producer reads at least one record or reaches the end of its file
C4_ProducerProgress ==
    \A w \in Workers :
        workers_[w].pc \in {"pass", "finish"} =>
            /\ max_elements >= 1
            /\ workers_[w].finished \/ workers_[w].pos >= workers_[w].chunk_index

\* C5: when sort() has returned successfully from an empty run set, an empty
\* file exists at the output path
C5_EmptyRunSetOutput ==
    (pc = "done" /\ Len(chunks) = 0) =>
        (OutputExists /\ fs[output_file_] = EmptyFile)

\* C6: when there are one or more input files, all of them empty, and no
\* file operation fails, sort() returns successfully and the output file
\* exists with no record
C6_AllEmptyInputs ==
    (/\ Returned
     /\ NoFaults
     /\ Len(files) >= 1
     /\ \A k \in 1..Len(inputs) : inputs[k] = EmptyFile) =>
        (pc = "done" /\ OutputExists /\ fs[output_file_] = EmptyFile)

\* C7: when an input file ends in a partial record, its run producer fails,
\* sort() fails, and no run of that input is left on disk
C7_PartialRecordRejected ==
    \A k \in 1..Len(inputs) :
        (Returned /\ NoFaults /\ inputs[k].tail # 0) =>
            /\ pc = "failed"
            /\ error = "task"
            /\ TempName(files[k]) \notin DOMAIN fs

\* C8: once a run producer task has failed, sort() is still generating runs
\* or has failed with that task's error; it never starts the merge phase,
\* submits no merge task, writes no output and never returns successfully
C8_ProducerFailureFailsJob ==
    ProducerFailed =>
        /\ pc \in {"submit", "get", "failed"}
        /\ pc = "failed" => error = "task"
        /\ mrg = NoMerge
        /\ \A id \in 1..Len(futures) : futures[id].kind # "merge"
        /\ ~OutputExists

C8_Witness ==
    /\ ProducerFailed
    /\ InputPath(0) \in unreadable
    /\ pc = "failed"
    /\ error = "task"

\* C9: when sort() has ended in failure, no file exists at the output path
C9_NoOutputOnFailure == pc = "failed" => ~OutputExists

C9_Witness ==
    /\ pc = "failed"
    /\ error = "mergeFiles"
    /\ TempName(InputPath(0)) \in unreadable
    /\ TempName(InputPath(0)) \in DOMAIN fs

C11_BufferBounded ==
    \A w \in Workers :
        Len(workers_[w].buffer) * (num_threads_ * RecordSize) <= memory_limit_

C11_Witness ==
    \E w \in Workers :
        /\ workers_[w].pc = "pass"
        /\ Len(workers_[w].buffer) >= 1
        /\ Len(workers_[w].buffer) = memory_limit_ \div (num_threads_ * RecordSize)
        /\ Len(ReadRecs(fs, workers_[w].task.files[1])) > Len(workers_[w].buffer)

\* the number of input streams every mergeFiles invocation in progress has
\* open: merge tasks, chunk merges of producers, the merge on the caller
OpenInputCounts ==
    {Len(workers_[w].task.files) : w \in {v \in Workers : workers_[v].pc = "mwrite"}}
    \cup {workers_[w].chunk_index : w \in {v \in Workers : workers_[v].pc = "cmerge"}}
    \cup (IF pc = "dwrite" THEN {Len(chunks)} ELSE {})

\* C12: every mergeFiles invocation in progress, in whichever phase, has at
\* most merge_factor input files open
C12_FanInBounded == \A c \in OpenInputCounts : c <= merge_factor

C14_SubmitAfterStop ==
    [][(late' # late /\ stop_) =>
          (late' = "thrown" /\ UNCHANGED <<tasks_, workers_, futures>>)]_vars

C14_Witness == late = "thrown" /\ \E w \in Workers : workers_[w].pc = "blocked"

\* the workers that hold, and the queue positions that carry, the task of
\* future i
Holders(i) == {w \in Workers : workers_[w].task.id = i}

Queued(i) == {k \in 1..Len(tasks_) : tasks_[k].id = i}

\* C15: the task of every pending future is either queued once or held by
\* exactly one worker, the task of a resolved future is neither, and a
\* resolved future never changes again
C15_ExactlyOnce ==
    /\ [](\A i \in 1..Len(futures) :
            Cardinality(Holders(i)) + Cardinality(Queued(i)) =
                IF futures[i].state = "pending" THEN 1 ELSE 0)
    /\ [][\A i \in 1..Len(futures) :
            futures[i].state # "pending" => futures'[i] = futures[i]]_vars

C15_Witness ==
    /\ \E v, w \in Workers :
          /\ v # w
          /\ workers_[v].task.id # 0
          /\ workers_[w].task.id # 0
          /\ workers_[v].task.id # workers_[w].task.id

\* C16: once the destructor has called notify_all no worker is blocked in
\* condition_.wait (a worker blocked then is woken by nothing the program
\* does: nothing notifies again)
C16_NoWorkerLeftBlocked ==
    destructor \in {"join", "joined"} => Blocked = {}

\* the Run Set: the runs of splitAndPresort when mergeChunks is entered, and
\* current_files at the loop test of every round
RunSet ==
    IF pc = "merge"
    THEN [k \in 1..Len(chunks) |-> chunks[k].temp_file]
    ELSE mrg.current_files

\* the positions <<k, j>> of the records of the files named by the Run Set
RunSetPositions ==
    UNION {{<<k, j>> : j \in 1..Len(fs[RunSet[k]].recs)} :
              k \in {i \in 1..Len(RunSet) : RunSet[i] \in DOMAIN fs}}

\* how often value v occurs in the files named by the Run Set
RunSetCount(v) ==
    Cardinality({p \in RunSetPositions : fs[RunSet[p[1]]].recs[p[2]] = v})

\* C17: when run generation has ended and at the loop test after every merge
\* round, every value occurs in the files of the Run Set as often as in the
\* input files
C17_RunSetPreserved ==
    pc \in {"merge", "round"} =>
        \A v \in Values : RunSetCount(v) = TotalCount(v)

\* a round is being collected and every merge task of it returned normally
RoundSucceeds ==
    /\ pc = "mwait"
    /\ pc' = "round"
    /\ \A k \in 1..Len(mrg.merge_futures) :
          futures[mrg.merge_futures[k]].state = "value"

\* the groups of the round being collected that were merged
MergedGroups == SelectSeq(Groups(mrg.current_files), IsMulti)

\* the single-run groups of the round being collected followed by the
\* intermediate paths of its merged groups
ExpectedNextRunSet ==
    LET singles == SelectSeq(Groups(mrg.current_files), IsSingle)
    IN  [k \in 1..Len(singles) |-> singles[k].fl[1]]
        \o [k \in 1..Len(MergedGroups) |->
               IntermediateName(mrg.round, MergedGroups[k].i)]

\* C18: the collection of a round whose merge tasks all succeeded leaves
\* current_files equal to the pass-through runs followed by the intermediate
\* paths of the merged groups, and each of these paths exists
C18_NextRunSet ==
    [][RoundSucceeds =>
          /\ mrg'.current_files = ExpectedNextRunSet
          /\ \A k \in 1..Len(mrg'.current_files) :
                mrg'.current_files[k] \in DOMAIN fs']_vars

\* C19: the collection of a round whose merge tasks all succeeded leaves no
\* input run of a merged group on disk
C19_MergedRunsDeleted ==
    [][RoundSucceeds =>
          \A g \in 1..Len(MergedGroups) :
              \A k \in 1..Len(MergedGroups[g].fl) :
                  MergedGroups[g].fl[k] \notin DOMAIN fs']_vars

\* the merge tasks that are queued or held by a worker
LiveMergeTasks ==
    {tasks_[k] : k \in {i \in 1..Len(tasks_) : tasks_[i].kind = "merge"}}
    \cup {workers_[w].task : w \in {v \in Workers : workers_[v].task.kind = "merge"}}

\* the intermediate paths of the round mergeChunks is in
RoundOutputs ==
    {IntermediateName(mrg.round, MergedGroups[g].i) : g \in 1..Len(MergedGroups)}

\* C20: every merge task that is queued or running was submitted in the
\* round mergeChunks is in, and none is once the round has been collected
C20_RoundBarrier ==
    \A t \in LiveMergeTasks :
        pc \in {"msubmit", "mwait"} /\ t.out \in RoundOutputs

C20_Witness ==
    /\ mrg.round >= 1
    /\ \E w \in Workers : workers_[w].pc = "mwrite"

\* a merge task submitted by mergeChunks has thrown
MergeTaskFailed ==
    \E i \in 1..Len(futures) :
        futures[i].kind = "merge" /\ futures[i].state = "exception"

\* C21: once a merge task has thrown, sort() does not return normally, fails
\* with the error of a task if it fails, and does not start another round
C21_MergeFailureSurfaced ==
    /\ [](MergeTaskFailed => pc # "done")
    /\ [](MergeTaskFailed /\ pc = "failed" => error = "task")
    /\ [][MergeTaskFailed /\ pc = "round" => pc' # "msubmit"]_vars

\* C22: when sort() has thrown the exception of a task, no future handed out
\* by submit is pending: no task is queued or running
C22_DrainedOnFailure ==
    (pc = "failed" /\ error = "task") =>
        \A i \in 1..Len(futures) : futures[i].state # "pending"

\* C23: for an empty input file no run file exists and no entry of chunks
\* names one
C23_EmptyInputNoRun ==
    \A k \in 1..Len(files) :
        inputs[k] = EmptyFile =>
            /\ TempName(files[k]) \notin DOMAIN fs
            /\ \A c \in 1..Len(chunks) : chunks[c].temp_file # TempName(files[k])

\* C24: every entry of chunks counts at most memory_limit_ / (num_threads_ * 8)
\* records, and when run generation has ended an input with more records
\* than that has several entries
C24_RunsWithinShare ==
    /\ \A c \in 1..Len(chunks) :
          chunks[c].data_count * (num_threads_ * RecordSize) <= memory_limit_
    /\ pc = "merge" =>
          \A k \in 1..Len(files) :
              Len(inputs[k].recs) > max_elements =>
                  Len(chunks) > Len(files)

\* the paths that a mergeFiles invocation in progress has open for reading
OpenReads ==
    UNION {{workers_[w].task.files[k] : k \in 1..Len(workers_[w].task.files)} :
              w \in {v \in Workers : workers_[v].pc = "mwrite"}}
    \cup UNION {{ChunkFiles(workers_[w])[k] : k \in 1..workers_[w].chunk_index} :
              w \in {v \in Workers : workers_[v].pc = "cmerge"}}
    \cup (IF pc = "dwrite"
          THEN {chunks[k].temp_file : k \in 1..Len(chunks)}
          ELSE {})

\* C25: every file a merge in progress is reading is on disk, and no file
\* has been read by more than one merge or copy
C25_RunsLinear ==
    /\ \A p \in OpenReads : p \in DOMAIN fs
    /\ \A p \in DOMAIN reads : reads[p] <= 1

C25_Witness ==
    /\ \E w \in Workers :
          /\ workers_[w].pc = "mwrite"
          /\ \E k \in 1..Len(workers_[w].task.files) :
                workers_[w].task.files[k] = IntermediateName(0, 0)
    /\ TempName(InputPath(0)) \in DOMAIN reads

\* C26: no path has been created or written by two different tasks
C26_TempPathsDisjoint ==
    \A p \in DOMAIN writers : Cardinality(writers[p]) <= 1

C26_Witness ==
    /\ IntermediateName(0, 0) \in DOMAIN writers
    /\ IntermediateName(1, 0) \in DOMAIN writers
    /\ TempName(InputPath(0)) \in DOMAIN writers
    /\ TempName(InputPath(1)) \in DOMAIN writers

\* no future handed out by submit is pending
NoPendingFuture == \A i \in 1..Len(futures) : futures[i].state # "pending"

====
